---- MODULE Spec2Model ----
(***************************************************************************)
(* Model of the in-memory to-do list manager of src/main.cpp:              *)
(* Task / TaskMemento / TaskHistory / ToDoListManager.                     *)
(*                                                                         *)
(* Indices are the 0-based C++ indices; the task at C++ index i is         *)
(* tasks[i + 1].  A std::stack is a sequence whose top is its last         *)
(* element.                                                                *)
(***************************************************************************)
EXTENDS Integers, Sequences, FiniteSets, TLC

\* ------------------------------------------------------------------ bounds
MaxCalls == 5
MaxTasks == 3

Descriptions == {"a", "b"}
DueDates == {"", "d1"}
Filters == {"Show all", "Show completed", "Show pending", "Show none"}

\* ------------------------------------------------------- console messages
UndoSuccessful == "Undo successful."
NothingToUndo == "Nothing to undo."
RedoSuccessful == "Redo successful."
NothingToRedo == "Nothing to redo."
TasksHeader == "Tasks:"

VARIABLES
    tasks,      \* ToDoListManager::tasks      (vector<Task>)
    history,    \* ToDoListManager::history    (TaskHistory)
    redoStack,  \* ToDoListManager::redoStack  (TaskHistory)
    out,        \* lines written to cout by the last manager call
    aborted,    \* TRUE once top()/pop() was executed on an empty std::stack
    call,       \* the last manager call: [op, index]
    pre,        \* manager state right before the last call, the call made
                \* before it, and (field was) the state before that one
    nCalls,     \* number of manager calls made so far
    edited,     \* an effective add/mark/delete happened and no undo() since
    undoBase,   \* tasks right before the first undo() of the current run
    nUndo,      \* successful undo() calls of the current undo/redo run
    nRedo       \* redo() calls that followed them in the current run

prog == <<tasks, history, redoStack>>
vars == <<tasks, history, redoStack, out, aborted, call, pre, nCalls,
          edited, undoBase, nUndo, nRedo>>

\* ------------------------------------------------------------ TaskMemento
TaskMemento(desc, completed, dueDate) ==
    [description |-> desc, isCompleted |-> completed, dueDate |-> dueDate]

\* ------------------------------------------------------------------- Task
Build(desc, date) ==
    [description |-> desc, completed |-> FALSE, dueDate |-> date, tags |-> <<>>]

markCompleted(t) == IF ~t.completed THEN [t EXCEPT !.completed = TRUE] ELSE t

markPendingNoop(t) == t
markPending(t) == IF t.completed THEN [t EXCEPT !.completed = FALSE] ELSE t

isCompleted(t) == t.completed

save(t) == TaskMemento(t.description, t.completed, t.dueDate)

restoreKeepsCompleted(t, memento) ==
    [t EXCEPT !.description = memento.description,
              !.dueDate = memento.dueDate]
restore(t, memento) ==
    [t EXCEPT !.description = memento.description,
              !.completed = memento.isCompleted,
              !.dueDate = memento.dueDate]

display(t, index) ==
    LET status == IF t.completed THEN "Completed" ELSE "Pending"
    IN  IF t.dueDate # ""
        THEN <<index + 1, t.description, status, t.dueDate>>
        ELSE <<index + 1, t.description, status>>

\* ------------------------------------------------------------ TaskHistory
EmptyHistory == [history |-> <<>>, redoStack |-> <<>>]

Top(s) == s[Len(s)]
Pop(s) == SubSeq(s, 1, Len(s) - 1)

addMementoKeepsRedo(th, memento) ==
    [history |-> Append(th.history, memento), redoStack |-> th.redoStack]
addMemento(th, memento) ==
    [history |-> Append(th.history, memento), redoStack |-> <<>>]

\* getMemento(): the returned memento and the TaskHistory it leaves behind
getMementoResult(th) == Top(th.history)
getMementoDropsSnapshot(th) ==
    [history |-> Pop(th.history), redoStack |-> th.redoStack]
getMementoNoPop(th) ==
    [history |-> th.history,
     redoStack |-> Append(th.redoStack, Top(th.history))]
getMemento(th) ==
    [history |-> Pop(th.history),
     redoStack |-> Append(th.redoStack, Top(th.history))]

isEmptyInverted(th) == th.history # <<>>
isEmpty(th) == th.history = <<>>

isRedoStackEmptyChecksHistory(th) == th.history = <<>>
isRedoStackEmpty(th) == th.redoStack = <<>>

\* TaskHistory::redo(): the returned memento and the TaskHistory left behind
redoResult(th) == Top(th.redoStack)
redo(th) ==
    [history |-> Append(th.history, Top(th.redoStack)),
     redoStack |-> Pop(th.redoStack)]

\* -------------------------------------------------------- ToDoListManager
ValidIndex(index, ts) == index >= 0 /\ index < Len(ts)

eraseFirst(ts, index) ==
    [j \in 1..(Len(ts) - 1) |-> ts[j + 1]]
erase(ts, index) ==
    [j \in 1..(Len(ts) - 1) |-> IF j < index + 1 THEN ts[j] ELSE ts[j + 1]]

\* The editing operations, on m = [tasks, history]
addTaskAtFront(m, task) ==
    [tasks |-> <<task>> \o m.tasks,
     history |-> addMemento(m.history, save(task))]
addTask(m, task) ==
    [tasks |-> Append(m.tasks, task),
     history |-> addMemento(m.history, save(task))]

markTaskCompletedSavesAfter(m, index) ==
    IF ValidIndex(index, m.tasks) /\ ~isCompleted(m.tasks[index + 1])
    THEN [tasks |-> [m.tasks EXCEPT ![index + 1] = markCompleted(@)],
          history |-> addMemento(m.history,
                                 save(markCompleted(m.tasks[index + 1])))]
    ELSE m
markTaskCompleted(m, index) ==
    IF ValidIndex(index, m.tasks) /\ ~isCompleted(m.tasks[index + 1])
    THEN [tasks |-> [m.tasks EXCEPT ![index + 1] = markCompleted(@)],
          history |-> addMemento(m.history, save(m.tasks[index + 1]))]
    ELSE m

markTaskPendingUnguarded(m, index) ==
    IF ValidIndex(index, m.tasks)
    THEN [tasks |-> [m.tasks EXCEPT ![index + 1] = markPending(@)],
          history |-> addMemento(m.history, save(m.tasks[index + 1]))]
    ELSE m
markTaskPending(m, index) ==
    IF ValidIndex(index, m.tasks) /\ isCompleted(m.tasks[index + 1])
    THEN [tasks |-> [m.tasks EXCEPT ![index + 1] = markPending(@)],
          history |-> addMemento(m.history, save(m.tasks[index + 1]))]
    ELSE m

deleteTaskOneBased(m, index) ==
    IF index >= 1 /\ index <= Len(m.tasks)
    THEN [tasks |-> erase(m.tasks, index - 1),
          history |-> addMemento(m.history, save(m.tasks[index]))]
    ELSE m
deleteTask(m, index) ==
    IF ValidIndex(index, m.tasks)
    THEN [tasks |-> erase(m.tasks, index),
          history |-> addMemento(m.history, save(m.tasks[index + 1]))]
    ELSE m

\* for (auto& task : tasks) if (description matches) { restore; break; }
RECURSIVE RestoreLoop(_, _, _)
RestoreLoop(ts, memento, j) ==
    IF j > Len(ts) THEN ts
    ELSE IF ts[j].description = memento.description
         THEN [ts EXCEPT ![j] = restore(ts[j], memento)]
         ELSE RestoreLoop(ts, memento, j + 1)

RestoreHead(ts, memento) ==
    IF ts = <<>> THEN ts ELSE [ts EXCEPT ![1] = restore(ts[1], memento)]
RestoreOrReinsert(ts, memento) ==
    IF \E j \in 1..Len(ts) : ts[j].description = memento.description
    THEN RestoreLoop(ts, memento, 1)
    ELSE Append(ts, [description |-> memento.description,
                     completed |-> memento.isCompleted,
                     dueDate |-> memento.dueDate, tags |-> <<>>])
RestoreAll(ts, memento) ==
    [j \in 1..Len(ts) |->
        IF ts[j].description = memento.description
        THEN restore(ts[j], memento) ELSE ts[j]]
RestoreFirst(ts, memento) == RestoreLoop(ts, memento, 1)

\* undo(): redoStack.addMemento(memento)
StoreUndoneOnRedoStack(th, memento) ==
    [history |-> th.history, redoStack |-> Append(th.redoStack, memento)]
StoreUndone(th, memento) == addMemento(th, memento)

\* viewTasks: the lines displayed for the filter, in collection order
ViewAllLines(ts, filter, j) ==
    [k \in 1..(Len(ts) - j + 1) |-> display(ts[k + j - 1], k + j - 2)]
RECURSIVE ViewLoop(_, _, _)
ViewLoop(ts, filter, j) ==
    IF j > Len(ts) THEN <<>>
    ELSE IF \/ filter = "Show all"
            \/ (filter = "Show completed" /\ isCompleted(ts[j]))
            \/ (filter = "Show pending" /\ ~isCompleted(ts[j]))
         THEN <<display(ts[j], j - 1)>> \o ViewLoop(ts, filter, j + 1)
         ELSE ViewLoop(ts, filter, j + 1)

\* ------------------------------------------------------------ bookkeeping
Snapshot ==
    [tasks |-> tasks, history |-> history, redoStack |-> redoStack,
     call |-> call,
     was |-> [tasks |-> pre.tasks, history |-> pre.history,
              redoStack |-> pre.redoStack]]

Called(op, index) ==
    /\ call' = [op |-> op, index |-> index]
    /\ pre' = Snapshot
    /\ nCalls' = nCalls + 1

CanCall == ~aborted /\ nCalls < MaxCalls

EndRun == undoBase' = <<>> /\ nUndo' = 0 /\ nRedo' = 0

\* ----------------------------------------------------------------- Init
Init ==
    /\ tasks = <<>>
    /\ history = EmptyHistory
    /\ redoStack = EmptyHistory
    /\ out = <<>>
    /\ aborted = FALSE
    /\ call = [op |-> "none", index |-> 0]
    /\ pre = [tasks |-> <<>>, history |-> EmptyHistory, redoStack |-> EmptyHistory,
              call |-> [op |-> "none", index |-> 0],
              was |-> [tasks |-> <<>>, history |-> EmptyHistory,
                       redoStack |-> EmptyHistory]]
    /\ nCalls = 0
    /\ edited = FALSE
    /\ undoBase = <<>>
    /\ nUndo = 0
    /\ nRedo = 0

\* -------------------------------------------------------------- actions
AddTask ==
    \E desc \in Descriptions, date \in DueDates :
        LET task == Build(desc, date)
            m == addTask([tasks |-> tasks, history |-> history], task)
        IN
        /\ CanCall
        /\ Len(tasks) < MaxTasks
        /\ tasks' = m.tasks
        /\ history' = m.history
        /\ out' = <<>>
        /\ edited' = TRUE
        /\ Called("addTask", Len(tasks))
        /\ EndRun
        /\ UNCHANGED <<redoStack, aborted>>

MarkTaskCompleted ==
    \E index \in -1..Len(tasks) :
        /\ CanCall
        /\ LET m == markTaskCompleted([tasks |-> tasks, history |-> history], index) IN
            /\ tasks' = m.tasks
            /\ history' = m.history
            /\ edited' = (edited \/ m.history # history)
        /\ out' = <<>>
        /\ Called("markTaskCompleted", index)
        /\ EndRun
        /\ UNCHANGED <<redoStack, aborted>>

MarkTaskPending ==
    \E index \in -1..Len(tasks) :
        /\ CanCall
        /\ LET m == markTaskPending([tasks |-> tasks, history |-> history], index) IN
            /\ tasks' = m.tasks
            /\ history' = m.history
            /\ edited' = (edited \/ m.history # history)
        /\ out' = <<>>
        /\ Called("markTaskPending", index)
        /\ EndRun
        /\ UNCHANGED <<redoStack, aborted>>

DeleteTask ==
    \E index \in -1..Len(tasks) :
        /\ CanCall
        /\ LET m == deleteTask([tasks |-> tasks, history |-> history], index) IN
            /\ tasks' = m.tasks
            /\ history' = m.history
            /\ edited' = (edited \/ m.history # history)
        /\ out' = <<>>
        /\ Called("deleteTask", index)
        /\ EndRun
        /\ UNCHANGED <<redoStack, aborted>>

ViewTasks ==
    \E filter \in Filters :
        /\ CanCall
        /\ out' = <<TasksHeader>> \o ViewLoop(tasks, filter, 1)
        /\ Called(filter, 0)
        /\ EndRun
        /\ UNCHANGED <<tasks, history, redoStack, aborted, edited>>

Undo ==
    /\ CanCall
    /\ Called("undo", 0)
    /\ IF ~isEmpty(history)
       THEN IF history.history = <<>>
            THEN \* history.top() on an empty stack
                 /\ aborted' = TRUE
                 /\ EndRun
                 /\ UNCHANGED <<tasks, history, redoStack, out, edited>>
            ELSE LET memento == getMementoResult(history) IN
                 /\ history' = getMemento(history)
                 /\ redoStack' = StoreUndone(redoStack, memento)
                 /\ tasks' = RestoreFirst(tasks, memento)
                 /\ out' = <<UndoSuccessful>>
                 /\ edited' = FALSE
                 /\ IF nUndo > 0 /\ nRedo = 0
                    THEN nUndo' = nUndo + 1 /\ UNCHANGED <<undoBase, nRedo>>
                    ELSE undoBase' = tasks /\ nUndo' = 1 /\ nRedo' = 0
                 /\ UNCHANGED aborted
       ELSE /\ out' = <<NothingToUndo>>
            /\ edited' = FALSE
            /\ EndRun
            /\ UNCHANGED <<tasks, history, redoStack, aborted>>

Redo ==
    /\ CanCall
    /\ Called("redo", 0)
    /\ IF ~isRedoStackEmpty(redoStack)
       THEN IF redoStack.redoStack = <<>>
            THEN \* redoStack.top() on an empty stack
                 /\ aborted' = TRUE
                 /\ UNCHANGED <<tasks, history, redoStack, out>>
            ELSE LET memento == redoResult(redoStack) IN
                 /\ redoStack' = redo(redoStack)
                 /\ history' = addMemento(history, memento)
                 /\ tasks' = RestoreFirst(tasks, memento)
                 /\ out' = <<RedoSuccessful>>
                 /\ UNCHANGED aborted
       ELSE /\ out' = <<NothingToRedo>>
            /\ UNCHANGED <<tasks, history, redoStack, aborted>>
    /\ IF nUndo > 0 /\ nRedo < nUndo
       THEN nRedo' = nRedo + 1 /\ UNCHANGED <<undoBase, nUndo>>
       ELSE EndRun
    /\ UNCHANGED edited

Next ==
    \/ AddTask
    \/ MarkTaskCompleted
    \/ MarkTaskPending
    \/ DeleteTask
    \/ ViewTasks
    \/ Undo
    \/ Redo

Spec == Init /\ [][Next]_vars

\* ================================================================ claims
Unchanged == tasks = pre.tasks /\ history = pre.history /\ redoStack = pre.redoStack

\* 1-based position of the first task of ts whose description is desc, 0 if none
FirstMatch(ts, desc) ==
    IF \E j \in 1..Len(ts) : ts[j].description = desc
    THEN CHOOSE j \in 1..Len(ts) :
            /\ ts[j].description = desc
            /\ \A l \in 1..(j - 1) : ts[l].description # desc
    ELSE 0

\* C1: undo() n times followed by redo() n times leaves the task collection
\* equal to what it was before the first undo.
C1_UndoRedoInverse ==
    (nUndo > 0 /\ nRedo = nUndo) => tasks = undoBase

\* C2: a redo() right after a successful undo() (no edit in between) does not
\* report "Nothing to redo": it moves the undone snapshot back onto the undo
\* stack and restores the task matching its description.
C2_RedoAfterUndo ==
    (call.op = "redo" /\ pre.call.op = "undo" /\ nUndo > 0 /\ nRedo = 1) =>
        /\ out # <<NothingToRedo>>
        /\ history.history =
               Append(pre.history.history, Top(pre.history.redoStack))
        /\ tasks = RestoreFirst(pre.tasks, Top(pre.history.redoStack))

\* C3: after an effective add/mark/delete not followed by an undo(), redo()
\* reports "Nothing to redo" and changes neither the tasks nor any stack.
C3_RedoAfterEdit ==
    (call.op = "redo" /\ edited) => (out = <<NothingToRedo>> /\ Unchanged)

C3_Witness ==
    /\ call.op = "redo" /\ edited
    /\ out = <<NothingToRedo>>
    /\ redoStack.history # <<>>
    /\ tasks # <<>>

\* C4: undo() on a non-empty undo stack pops the most recent snapshot and
\* overwrites completed flag and due date of the first task with the
\* snapshot's description; every other task, the order and the length of the
\* collection stay as they were.
C4_UndoFrame ==
    (call.op = "undo" /\ pre.history.history # <<>>) =>
        LET m == Top(pre.history.history)
            k == FirstMatch(pre.tasks, m.description)
        IN  /\ history.history = Pop(pre.history.history)
            /\ Len(tasks) = Len(pre.tasks)
            /\ \A j \in 1..Len(pre.tasks) :
                  tasks[j] = IF j = k
                             THEN [pre.tasks[j] EXCEPT
                                      !.completed = m.isCompleted,
                                      !.dueDate = m.dueDate]
                             ELSE pre.tasks[j]

C4_Witness ==
    /\ call.op = "undo" /\ pre.history.history # <<>>
    /\ Len(tasks) >= 2
    /\ tasks[1].description = tasks[2].description
    /\ Top(pre.history.history).description = tasks[1].description
    /\ tasks[1] # pre.tasks[1]
    /\ tasks[2] # tasks[1]

\* C5 (as stated): markTaskCompleted(i) on a pending task immediately followed
\* by undo() returns the whole collection to its state before the mark.
C5_MarkUndoAnyTask ==
    (/\ call.op = "undo" /\ pre.call.op = "markTaskCompleted"
     /\ ValidIndex(pre.call.index, pre.was.tasks)
     /\ ~pre.was.tasks[pre.call.index + 1].completed)
        => tasks = pre.was.tasks

\* C5 (amended): the same, for a pending task i such that no task at a lower
\* index has task i's description.
C5_MarkUndoFirstOfDescription ==
    (/\ call.op = "undo" /\ pre.call.op = "markTaskCompleted"
     /\ ValidIndex(pre.call.index, pre.was.tasks)
     /\ ~pre.was.tasks[pre.call.index + 1].completed
     /\ FirstMatch(pre.was.tasks,
                   pre.was.tasks[pre.call.index + 1].description)
            = pre.call.index + 1)
        => tasks = pre.was.tasks

C5_Witness ==
    /\ call.op = "undo" /\ pre.call.op = "markTaskCompleted"
    /\ ValidIndex(pre.call.index, pre.was.tasks)
    /\ ~pre.was.tasks[pre.call.index + 1].completed
    /\ FirstMatch(pre.was.tasks,
                  pre.was.tasks[pre.call.index + 1].description)
           = pre.call.index + 1
    /\ pre.call.index = 1
    /\ pre.tasks[2].completed
    /\ ~tasks[2].completed

\* C6: markTaskCompleted, markTaskPending and deleteTask with an index outside
\* [0, number of tasks) change neither the tasks nor any history stack.
C6_InvalidIndexNoOp ==
    (/\ call.op \in {"markTaskCompleted", "markTaskPending", "deleteTask"}
     /\ ~(0 <= call.index /\ call.index < Len(pre.tasks)))
        => Unchanged

C6_Witness ==
    /\ call.op = "deleteTask"
    /\ call.index = Len(pre.tasks)
    /\ Len(pre.tasks) >= 2
    /\ pre.history.redoStack # <<>>
    /\ Unchanged

\* C7 (as stated): for every valid index i, markTaskCompleted(i) then
\* markTaskPending(i) leaves task i with its original completed flag and due
\* date and records the two intermediate snapshots on the undo stack.
C7_MarkRoundTripAnyTask ==
    (/\ call.op = "markTaskPending" /\ pre.call.op = "markTaskCompleted"
     /\ call.index = pre.call.index
     /\ ValidIndex(call.index, pre.was.tasks))
        => LET i == call.index + 1 IN
           /\ tasks[i].completed = pre.was.tasks[i].completed
           /\ tasks[i].dueDate = pre.was.tasks[i].dueDate
           /\ history.history = pre.was.history.history
                  \o <<save(pre.was.tasks[i]), save(pre.tasks[i])>>

\* C7 (amended): the same, for every valid index i whose task is pending.
C7_MarkRoundTripPendingTask ==
    (/\ call.op = "markTaskPending" /\ pre.call.op = "markTaskCompleted"
     /\ call.index = pre.call.index
     /\ ValidIndex(call.index, pre.was.tasks)
     /\ ~pre.was.tasks[call.index + 1].completed)
        => LET i == call.index + 1 IN
           /\ tasks[i].completed = pre.was.tasks[i].completed
           /\ tasks[i].dueDate = pre.was.tasks[i].dueDate
           /\ history.history = pre.was.history.history
                  \o <<save(pre.was.tasks[i]), save(pre.tasks[i])>>

C7_Witness ==
    /\ call.op = "markTaskPending" /\ pre.call.op = "markTaskCompleted"
    /\ call.index = pre.call.index
    /\ ValidIndex(call.index, pre.was.tasks)
    /\ ~pre.was.tasks[call.index + 1].completed
    /\ pre.tasks[call.index + 1].completed
    /\ pre.was.tasks[call.index + 1].dueDate # ""
    /\ Len(history.history) = Len(pre.was.history.history) + 2

\* C8: deleteTask(i) with valid i removes exactly the task at index i (tasks
\* below i keep their index, tasks above i move down by one, contents
\* unchanged) and pushes exactly one snapshot of the deleted task's
\* pre-deletion state on the undo stack.
C8_DeleteShifts ==
    (call.op = "deleteTask" /\ ValidIndex(call.index, pre.tasks)) =>
        /\ Len(tasks) = Len(pre.tasks) - 1
        /\ \A j \in 0..(call.index - 1) : tasks[j + 1] = pre.tasks[j + 1]
        /\ \A j \in (call.index + 1)..(Len(pre.tasks) - 1) :
              tasks[j] = pre.tasks[j + 1]
        /\ history.history =
               Append(pre.history.history, save(pre.tasks[call.index + 1]))

C8_Witness ==
    /\ call.op = "deleteTask"
    /\ call.index = 1
    /\ Len(pre.tasks) = 3
    /\ Len(tasks) = 2
    /\ pre.tasks[1] # pre.tasks[2]
    /\ pre.tasks[2] # pre.tasks[3]

\* C9: deleteTask(i) then undo(), when no remaining task has the deleted
\* task's description: the undo consumes the delete snapshot but leaves the
\* collection as it was after the deletion (the task is not reinserted).
C9_UndoOfDeleteNoReinsert ==
    (/\ call.op = "undo" /\ pre.call.op = "deleteTask"
     /\ ValidIndex(pre.call.index, pre.was.tasks)
     /\ FirstMatch(pre.tasks,
                   pre.was.tasks[pre.call.index + 1].description) = 0)
        => /\ tasks = pre.tasks
           /\ Len(tasks) = Len(pre.was.tasks) - 1
           /\ Top(pre.history.history) = save(pre.was.tasks[pre.call.index + 1])
           /\ history.history = Pop(pre.history.history)
           /\ history.history = pre.was.history.history

C9_Witness ==
    /\ call.op = "undo" /\ pre.call.op = "deleteTask"
    /\ ValidIndex(pre.call.index, pre.was.tasks)
    /\ FirstMatch(pre.tasks,
                  pre.was.tasks[pre.call.index + 1].description) = 0
    /\ out = <<UndoSuccessful>>
    /\ tasks # <<>>

\* C10: undo() with no snapshot on the undo stack reports "Nothing to undo",
\* leaves tasks and all history stacks unchanged, and never aborts.
C10_UndoOnEmpty ==
    (call.op = "undo" /\ pre.history.history = <<>>) =>
        (out = <<NothingToUndo>> /\ Unchanged /\ ~aborted)

C10_Witness ==
    /\ call.op = "undo" /\ pre.history.history = <<>>
    /\ out = <<NothingToUndo>>
    /\ tasks # <<>>
    /\ history.redoStack # <<>>

\* Number of snapshots a TaskHistory holds in its two stacks
StackSize(th) == Len(th.history) + Len(th.redoStack)

C12_MarkRecordsThenFlips ==
    LET i == call.index + 1 IN
    /\ (/\ call.op = "markTaskCompleted"
        /\ ValidIndex(call.index, pre.tasks)
        /\ ~pre.tasks[i].completed)
          => /\ history.history = Append(pre.history.history,
                    TaskMemento(pre.tasks[i].description, FALSE,
                                pre.tasks[i].dueDate))
             /\ tasks = [pre.tasks EXCEPT ![i].completed = TRUE]
    /\ (/\ call.op = "markTaskPending"
        /\ ValidIndex(call.index, pre.tasks)
        /\ pre.tasks[i].completed)
          => /\ history.history = Append(pre.history.history,
                    TaskMemento(pre.tasks[i].description, TRUE,
                                pre.tasks[i].dueDate))
             /\ tasks = [pre.tasks EXCEPT ![i].completed = FALSE]

C12_Witness ==
    /\ call.op = "markTaskCompleted"
    /\ call.index = 1
    /\ Len(pre.tasks) >= 2
    /\ ~pre.tasks[2].completed
    /\ tasks[2].completed
    /\ pre.tasks[2].dueDate # ""
    /\ Len(history.history) = Len(pre.history.history) + 1

\* C13: addTask appends the task at the end without changing the existing
\* tasks or their order, and pushes exactly one snapshot of the new task
\* (completed = false) on the undo stack.
C13_AddAppends ==
    (call.op = "addTask") =>
        /\ Len(tasks) = Len(pre.tasks) + 1
        /\ SubSeq(tasks, 1, Len(pre.tasks)) = pre.tasks
        /\ ~tasks[Len(tasks)].completed
        /\ Len(history.history) = Len(pre.history.history) + 1
        /\ SubSeq(history.history, 1, Len(pre.history.history))
              = pre.history.history
        /\ Top(history.history) =
              TaskMemento(tasks[Len(tasks)].description, FALSE,
                          tasks[Len(tasks)].dueDate)

C13_Witness ==
    /\ call.op = "addTask"
    /\ Len(pre.tasks) = 2
    /\ pre.tasks[1] # pre.tasks[2]
    /\ tasks[3] # pre.tasks[1]
    /\ Len(tasks) = 3

Matches(t, filter) ==
    \/ filter = "Show all"
    \/ (filter = "Show completed" /\ t.completed)
    \/ (filter = "Show pending" /\ ~t.completed)

\* C14: viewTasks(filter) lists, in collection order, exactly the tasks
\* matching the filter (all, only completed, only pending, none for any other
\* filter) and leaves the tasks and all history stacks unchanged.
C14_ViewListsMatching ==
    (call.op \in Filters) =>
        LET lines == Tail(out)
            shown == {j \in 1..Len(tasks) : Matches(tasks[j], call.op)}
        IN  /\ Unchanged
            /\ Head(out) = TasksHeader
            /\ Len(lines) = Cardinality(shown)
            /\ \A k \in 1..Len(lines) :
                  /\ lines[k][1] \in shown
                  /\ lines[k][2] = tasks[lines[k][1]].description
                  /\ lines[k][3] = IF tasks[lines[k][1]].completed
                                   THEN "Completed" ELSE "Pending"
                  /\ IF tasks[lines[k][1]].dueDate = ""
                     THEN Len(lines[k]) = 3
                     ELSE /\ Len(lines[k]) = 4
                          /\ lines[k][4] = tasks[lines[k][1]].dueDate
                  /\ k > 1 => lines[k - 1][1] < lines[k][1]

C14_Witness ==
    /\ call.op = "Show pending"
    /\ Len(tasks) = 3
    /\ tasks[2].completed
    /\ Len(out) = 3
    /\ out[2][1] = 1
    /\ out[3][1] = 3

\* C15: markTaskCompleted(i) on an already-completed task and
\* markTaskPending(i) on an already-pending task change nothing: no snapshot
\* is recorded, the redo trail is not cleared and no task changes.
C15_RedundantMarkNoOp ==
    LET i == call.index + 1 IN
    (/\ ValidIndex(call.index, pre.tasks)
     /\ \/ (call.op = "markTaskCompleted" /\ pre.tasks[i].completed)
        \/ (call.op = "markTaskPending" /\ ~pre.tasks[i].completed))
        => Unchanged

C15_Witness ==
    /\ call.op = "markTaskPending"
    /\ ValidIndex(call.index, pre.tasks)
    /\ ~pre.tasks[call.index + 1].completed
    /\ pre.history.redoStack # <<>>
    /\ pre.history.history # <<>>
    /\ history = pre.history

\* C16: TaskHistory::addMemento(m) leaves the TaskHistory with m on top of
\* its history stack, the earlier entries unchanged beneath it, and its
\* redoStack empty whatever it held before.  Checked at every addMemento the
\* manager makes: on history by an effective edit, on redoStack by undo().
C16_AddMementoPushesAndClears ==
    LET i == call.index + 1 IN
    /\ (call.op \in {"addTask", "markTaskCompleted", "markTaskPending",
                     "deleteTask"} /\ history # pre.history) =>
          /\ history.history = Append(pre.history.history,
                IF call.op = "addTask"
                THEN TaskMemento(tasks[Len(tasks)].description,
                                 tasks[Len(tasks)].completed,
                                 tasks[Len(tasks)].dueDate)
                ELSE TaskMemento(pre.tasks[i].description,
                                 pre.tasks[i].completed,
                                 pre.tasks[i].dueDate))
          /\ history.redoStack = <<>>
    /\ (call.op = "undo" /\ out = <<UndoSuccessful>>) =>
          /\ redoStack.history =
                Append(pre.redoStack.history, Top(pre.history.history))
          /\ redoStack.redoStack = <<>>

C16_Witness ==
    /\ call.op \in {"addTask", "markTaskCompleted", "markTaskPending",
                    "deleteTask"}
    /\ pre.history.redoStack # <<>>
    /\ pre.history.history # <<>>
    /\ Len(history.history) = Len(pre.history.history) + 1
    /\ history.redoStack = <<>>

DescriptionsOf(ts) == [j \in 1..Len(ts) |-> ts[j].description]

\* C17: a task's description never changes while the task stays in the
\* collection, whatever add/mark/delete/undo/redo call is made (restore only
\* writes a description equal to the one already held).
C17_DescriptionImmutable ==
    IF call.op = "deleteTask" /\ ValidIndex(call.index, pre.tasks)
    THEN /\ \A j \in 1..call.index :
               tasks[j].description = pre.tasks[j].description
         /\ \A j \in (call.index + 2)..Len(pre.tasks) :
               tasks[j - 1].description = pre.tasks[j].description
    ELSE /\ Len(tasks) >= Len(pre.tasks)
         /\ \A j \in 1..Len(pre.tasks) :
               tasks[j].description = pre.tasks[j].description

C17_Witness ==
    /\ call.op = "undo" /\ out = <<UndoSuccessful>>
    /\ Len(tasks) >= 2
    /\ tasks[2] # pre.tasks[2]
    /\ tasks[1].description # tasks[2].description

\* C18: the stack redo() tests, the inner redoStack of the manager's
\* redoStack member, is empty in every reachable state; so redo() never
\* modifies the tasks or a history.
C18_RedoTestsEmptyStack ==
    /\ redoStack.redoStack = <<>>
    /\ call.op = "redo" => (Unchanged /\ out = <<NothingToRedo>>)

C18_Witness ==
    /\ call.op = "redo" /\ pre.call.op = "undo"
    /\ redoStack.history # <<>>
    /\ history.redoStack # <<>>
    /\ redoStack.redoStack = <<>>
    /\ Unchanged

\* C19: no reachable sequence of calls pops or reads the top of an empty
\* stack: getMemento() runs only on a non-empty history stack and
\* TaskHistory::redo() only on a non-empty redoStack.
C19_NoPopOfEmptyStack ==
    /\ ~aborted
    /\ (call.op = "undo" /\ out # <<NothingToUndo>>)
          => pre.history.history # <<>>
    /\ (call.op = "redo" /\ out # <<NothingToRedo>>)
          => pre.redoStack.redoStack # <<>>

C19_Witness ==
    /\ call.op = "undo" /\ out = <<UndoSuccessful>>
    /\ Len(pre.history.history) = 1
    /\ history.history = <<>>
    /\ pre.call.op = "undo"
    /\ ~aborted

\* C20: undo() and redo() never change the number of tasks or their order:
\* only addTask grows the collection and only a valid deleteTask shrinks it,
\* so undoing an addTask does not remove the task and undoing a deleteTask
\* does not bring it back.
C20_UndoRedoKeepCollection ==
    /\ call.op \in {"undo", "redo"} =>
          /\ Len(tasks) = Len(pre.tasks)
          /\ DescriptionsOf(tasks) = DescriptionsOf(pre.tasks)
    /\ Len(tasks) > Len(pre.tasks) => call.op = "addTask"
    /\ Len(tasks) < Len(pre.tasks) =>
          (call.op = "deleteTask" /\ ValidIndex(call.index, pre.tasks))

C20_Witness ==
    /\ call.op = "undo" /\ out = <<UndoSuccessful>>
    /\ pre.call.op = "addTask"
    /\ Len(pre.was.tasks) = Len(tasks) - 1
    /\ Len(tasks) >= 2
    /\ tasks = pre.tasks

====
